---------------------------- MODULE Spec2Model ----------------------------
(* Attendance tracker of attend-academy-timekeeper.                         *)
(*                                                                          *)
(* The repository holds two revisions of the tracker.  The "remote" one is  *)
(* src/src/context/AttendanceContext.tsx, backed by the 'attendance' table; *)
(* the "local" one is src/unnamed/part_002, backed by localStorage.  Both   *)
(* sit on the session store of src/src/context/AuthContext.tsx.             *)
(*                                                                          *)
(* A handler of the remote revision is an async function: the part up to    *)
(* its await is one step (the ...Call actions), the part after the await is *)
(* another (the ...Done actions).  A request in flight carries what the     *)
(* closure of its handler captured when the handler was called.  The table  *)
(* answers a request at the moment the await resumes.  The handlers of the  *)
(* local revision are synchronous: one step each.                           *)
(*                                                                          *)
(* Records are written with the field names of the remote revision in both  *)
(* revisions (user_id, check_in_time, check_out_time).                      *)
EXTENDS Integers, Sequences, FiniteSets, Bags, TLC

(* ------------------------------ bounds -------------------------------- *)
MaxUsers == 2
MaxTime == 1
MaxRecords == 2
MaxInFlight == 2
TicksPerDay == 1
MaxHistory == 10
MaxReportDay == 2
MaxHours == 2

(* ------------------------- program constants -------------------------- *)
RecentDays == 30
RecentLimit == 10
MsPerHour == 1000 * 60 * 60
MsPerMinute == 1000 * 60
MinutesPerHour == 60

VARIABLES backend, user, storedUser, now, db, storage, todayRecord,
          recentRecords, isLoading, inflight, outcome, returned

vars == <<backend, user, storedUser, now, db, storage, todayRecord,
          recentRecords, isLoading, inflight, outcome, returned>>

(* ------------------------------ values -------------------------------- *)
NoUser == 0
CorruptUser == -1
NoTime == -1
NoStamp == <<>>
Undefined == -1
LoginId == 1
UserIds == 1..MaxUsers
RegisterIds == UserIds \ {LoginId}

(* Date.prototype.toISOString: the instant as <<calendar day, tick of day>> *)
ToISOString(t) == <<t \div TicksPerDay, t % TicksPerDay>>

(* new Date(isoString) *)
ParseDate(s) == s[1] * TicksPerDay + s[2]

(* toISOString().split('T')[0] *)
DateKey(t) == ToISOString(t)[1]

(* toLocaleDateString() *)
LocaleDateString(t) == t \div TicksPerDay

(* the tracker's AttendanceRecord; the absent record (null) has id 0 *)
NoRecord == [id |-> 0, user_id |-> NoUser, check_in_time |-> NoTime,
             check_out_time |-> NoTime, date |-> -1]

(* a stored row as the tracker formats it: timestamps become Date objects *)
FormatRecord(row) ==
  [id |-> row.id, user_id |-> row.user_id,
   check_in_time |-> ParseDate(row.check_in_time),
   check_out_time |-> IF row.check_out_time # NoStamp
                        THEN ParseDate(row.check_out_time) ELSE NoTime,
   date |-> row.date]

FormatAll(s) == [i \in 1..Len(s) |-> FormatRecord(s[i])]

(* an isCheckedIn that looks at the presence of todayRecord only *)
IsCheckedInWhenPresent == todayRecord # NoRecord

(* isCheckedIn: !!todayRecord && !todayRecord.check_out_time *)
IsCheckedIn == todayRecord # NoRecord /\ todayRecord.check_out_time = NoTime

(* a request in flight with what the closure of its handler captured:     *)
(* user, now (checkIn, checkOut), todayRecord.id (checkOut),               *)
(* recentRecords (checkIn, checkOut) and the dates of its query            *)
Op(kind, u, t, id, rr, from, to) ==
  [kind |-> kind, user |-> u, now |-> t, id |-> id, rr |-> rr, from |-> from, to |-> to]

(* the requests in flight form a bag: two handlers may hold equal closures *)
Issued(op) == inflight (+) SetToBag({op})
Answered(op) == inflight (-) SetToBag({op})
InFlight == BagToSet(inflight)
NumInFlight == BagCardinality(inflight)
Pending(kind) == {op \in InFlight : op.kind = kind}
NumPending(kinds) ==
  LET S == {op \in InFlight : op.kind \in kinds}
  IN IF S = {} THEN 0 ELSE BagCardinality([op \in S |-> inflight[op]])

(* an 'attendance_<id>' item of localStorage: absent, the list            *)
(* JSON.stringify wrote, or text that JSON.parse rejects                   *)
NoItem == [present |-> FALSE, readable |-> TRUE, items |-> <<>>]
Item(rows) == [present |-> TRUE, readable |-> TRUE, items |-> rows]
CorruptItem == [present |-> TRUE, readable |-> FALSE, items |-> <<>>]

(* ------------------------------- Init --------------------------------- *)
InitState ==
  /\ user = NoUser
  /\ storedUser = NoUser
  /\ now = 0
  /\ db = {}
  /\ storage = [u \in UserIds |-> NoItem]
  /\ todayRecord = NoRecord
  /\ recentRecords = <<>>
  /\ isLoading = FALSE
  /\ inflight = EmptyBag
  /\ outcome = ""
  /\ returned = <<>>

Init == backend \in {"remote", "local"} /\ InitState

(* the clock read by new Date() advances *)
Tick ==
  /\ now < MaxTime
  /\ now' = now + 1
  /\ outcome' = ""
  /\ UNCHANGED <<backend, user, storedUser, db, storage, todayRecord, recentRecords, isLoading, inflight>>
  /\ returned' = <<>>

(* ------------------- the persistence collaborator --------------------- *)
(* the id the table assigns to an inserted row (rows are never deleted) *)
FreshId == Cardinality(db) + 1

(* .eq('user_id', u).eq('date', d) *)
RowsOfDay(u, d) == {r \in db : r.user_id = u /\ r.date = d}

(* .eq('user_id', u).gte('date', from) *)
RowsSince(u, from) == {r \in db : r.user_id = u /\ r.date >= from}

(* a range query without its .lte('date', to) *)
RowsInRangeNoUpper(u, from, to) == {r \in db : r.user_id = u /\ r.date >= from}

(* .eq('user_id', u).gte('date', from).lte('date', to) *)
RowsInRange(u, from, to) == {r \in db : r.user_id = u /\ r.date >= from /\ r.date <= to}

(* .order('date', { ascending: false }): every order the table may return *)
RECURSIVE OrderedByDateDesc(_)
OrderedByDateDesc(S) ==
  IF S = {} THEN {<<>>}
  ELSE UNION {{<<r>> \o t : t \in OrderedByDateDesc(S \ {r})} :
                r \in {x \in S : \A y \in S : x.date >= y.date}}

(* .limit(n) *)
Limit(s, n) == SubSeq(s, 1, IF Len(s) < n THEN Len(s) ELSE n)

(* the row insert([{user_id, check_in_time, date}]).select().single() returns *)
InsertedRow(op) ==
  [id |-> FreshId, user_id |-> op.user, check_in_time |-> ToISOString(op.now),
   check_out_time |-> NoStamp, date |-> DateKey(op.now)]

(* an update that stamps the start of the clock instead of the call's now *)
UpdatedRowAtStart(row, op) == [row EXCEPT !.check_out_time = ToISOString(0)]

(* the row update({check_out_time}).eq('id', id).select().single() returns *)
UpdatedRow(row, op) == [row EXCEPT !.check_out_time = ToISOString(op.now)]

(* ============ remote revision: src/src/context/AttendanceContext.tsx ============ *)

(* ------------------------ loadAttendanceRecords ----------------------- *)
(* up to the first await: the query for today's record is issued *)
LoadIssue(u) ==
  /\ isLoading' = TRUE
  /\ inflight' = Issued(Op("loadToday", u, 0, 0, <<>>, DateKey(now), 0))

(* the query for today's record answers; the query for recent records is issued *)
LoadTodayDone(op, ok) ==
  LET rows == RowsOfDay(op.user, op.from)
  IN /\ op.kind = "loadToday"
     /\ IF ok /\ Cardinality(rows) <= 1
          THEN /\ todayRecord' = IF rows = {} THEN NoRecord
                                 ELSE FormatRecord(CHOOSE r \in rows : TRUE)
               /\ inflight' = Answered(op) (+) SetToBag({
                    Op("loadRecent", op.user, 0, 0, <<>>,
                       DateKey(now - RecentDays * TicksPerDay), 0)})
               /\ outcome' = ""
               /\ UNCHANGED isLoading
          ELSE /\ outcome' = "Error loading attendance"
               /\ isLoading' = FALSE
               /\ inflight' = Answered(op)
               /\ UNCHANGED todayRecord
     /\ UNCHANGED <<backend, user, storedUser, now, db, storage, recentRecords>>
     /\ returned' = <<>>

(* the query for recent records answers *)
LoadRecentDone(op, ok) ==
  /\ op.kind = "loadRecent"
  /\ IF ok
       THEN /\ \E s \in OrderedByDateDesc(RowsSince(op.user, op.from)) :
                 recentRecords' = FormatAll(Limit(s, RecentLimit))
            /\ outcome' = ""
       ELSE /\ outcome' = "Error loading attendance"
            /\ UNCHANGED recentRecords
  /\ isLoading' = FALSE
  /\ inflight' = Answered(op)
  /\ UNCHANGED <<backend, user, storedUser, now, db, storage, todayRecord>>
  /\ returned' = <<>>

(* ------------------------------ checkIn ------------------------------- *)
(* checkIn that does not look at todayRecord *)
CheckInCallUnguarded ==
  /\ IF user = NoUser
       THEN /\ outcome' = "checkIn: returned"
            /\ UNCHANGED <<isLoading, inflight>>
       ELSE /\ NumInFlight < MaxInFlight
            /\ Cardinality({r \in db : r.date >= 0}) + NumPending({"checkIn"}) < MaxRecords
            /\ isLoading' = TRUE
            /\ inflight' = Issued(Op("checkIn", user, now, 0, recentRecords, 0, 0))
            /\ outcome' = ""
  /\ UNCHANGED <<backend, user, storedUser, now, db, storage, todayRecord, recentRecords>>
  /\ returned' = <<>>

(* checkIn up to its await *)
CheckInCall ==
  /\ IF user = NoUser
       THEN /\ outcome' = "checkIn: returned"
            /\ UNCHANGED <<isLoading, inflight>>
       ELSE IF todayRecord # NoRecord
         THEN /\ outcome' = "Already checked in"
              /\ isLoading' = FALSE
              /\ UNCHANGED inflight
         ELSE /\ NumInFlight < MaxInFlight
              /\ Cardinality({r \in db : r.date >= 0}) + NumPending({"checkIn"}) < MaxRecords
              /\ isLoading' = TRUE
              /\ inflight' = Issued(Op("checkIn", user, now, 0, recentRecords, 0, 0))
              /\ outcome' = ""
  /\ UNCHANGED <<backend, user, storedUser, now, db, storage, todayRecord, recentRecords>>
  /\ returned' = <<>>

(* checkIn after its await: the insert answers *)
CheckInDone(op, ok) ==
  LET data == InsertedRow(op)
      newRecord == FormatRecord(data)
  IN /\ op.kind = "checkIn"
     /\ IF ok
          THEN /\ db' = db \cup {data}
               /\ todayRecord' = newRecord
               /\ recentRecords' = <<newRecord>> \o op.rr
               /\ outcome' = "Checked in successfully"
          ELSE /\ outcome' = "Check-in failed"
               /\ UNCHANGED <<db, todayRecord, recentRecords>>
     /\ isLoading' = FALSE
     /\ inflight' = Answered(op)
     /\ UNCHANGED <<backend, user, storedUser, now, storage>>
     /\ returned' = <<>>

(* ------------------------------ checkOut ------------------------------ *)
(* checkOut that does not return when todayRecord is absent *)
CheckOutCallUnguarded ==
  /\ IF user = NoUser
       THEN /\ outcome' = "checkOut: returned"
            /\ UNCHANGED <<isLoading, inflight>>
       ELSE IF todayRecord.check_out_time # NoTime
         THEN /\ outcome' = "Already checked out"
              /\ isLoading' = FALSE
              /\ UNCHANGED inflight
         ELSE /\ NumInFlight < MaxInFlight
              /\ isLoading' = TRUE
              /\ inflight' = Issued(Op("checkOut", user, now, todayRecord.id, recentRecords, 0, 0))
              /\ outcome' = ""
  /\ UNCHANGED <<backend, user, storedUser, now, db, storage, todayRecord, recentRecords>>
  /\ returned' = <<>>

(* checkOut up to its await *)
CheckOutCall ==
  /\ IF user = NoUser \/ todayRecord = NoRecord
       THEN /\ outcome' = "checkOut: returned"
            /\ UNCHANGED <<isLoading, inflight>>
       ELSE IF todayRecord.check_out_time # NoTime
         THEN /\ outcome' = "Already checked out"
              /\ isLoading' = FALSE
              /\ UNCHANGED inflight
         ELSE /\ NumInFlight < MaxInFlight
              /\ isLoading' = TRUE
              /\ inflight' = Issued(Op("checkOut", user, now, todayRecord.id, recentRecords, 0, 0))
              /\ outcome' = ""
  /\ UNCHANGED <<backend, user, storedUser, now, db, storage, todayRecord, recentRecords>>
  /\ returned' = <<>>

(* checkOut after its await: the update answers *)
CheckOutDone(op, ok) ==
  LET rows == {r \in db : r.id = op.id}
  IN /\ op.kind = "checkOut"
     /\ IF ok /\ rows # {}
          THEN LET row == CHOOSE r \in rows : TRUE
                   data == UpdatedRow(row, op)
                   updatedRecord == FormatRecord(data)
               IN /\ db' = (db \ {row}) \cup {data}
                  /\ todayRecord' = updatedRecord
                  /\ recentRecords' = [k \in 1..Len(op.rr) |->
                       IF op.rr[k].id = updatedRecord.id THEN updatedRecord ELSE op.rr[k]]
                  /\ outcome' = "Checked out successfully"
          ELSE /\ outcome' = "Check-out failed"
               /\ UNCHANGED <<db, todayRecord, recentRecords>>
     /\ isLoading' = FALSE
     /\ inflight' = Answered(op)
     /\ UNCHANGED <<backend, user, storedUser, now, storage>>
     /\ returned' = <<>>

(* --------------------- fetchAttendanceByDateRange --------------------- *)
(* fetchAttendanceByDateRange up to its await *)
FetchCall(from, to) ==
  /\ IF user = NoUser \/ from = Undefined \/ to = Undefined
       THEN /\ outcome' = "fetch: returned"
            /\ UNCHANGED <<isLoading, inflight>>
       ELSE /\ NumInFlight < MaxInFlight
            /\ isLoading' = TRUE
            /\ inflight' = Issued(Op("fetch", user, 0, 0, <<>>, from, to))
            /\ outcome' = ""
  /\ UNCHANGED <<backend, user, storedUser, now, db, storage, todayRecord, recentRecords>>
  /\ returned' = <<>>

(* fetchAttendanceByDateRange after its await *)
FetchDone(op, ok) ==
  /\ op.kind = "fetch"
  /\ IF ok
       THEN /\ \E s \in OrderedByDateDesc(RowsInRange(op.user, op.from, op.to)) :
                 returned' = FormatAll(s)
            /\ outcome' = ""
       ELSE /\ returned' = <<>>
            /\ outcome' = "Error loading attendance"
  /\ isLoading' = FALSE
  /\ inflight' = Answered(op)
  /\ UNCHANGED <<backend, user, storedUser, now, db, storage, todayRecord, recentRecords>>

(* an await resumes *)
Respond ==
  \/ \E op \in InFlight : \E ok \in BOOLEAN : LoadTodayDone(op, ok)
  \/ \E op \in InFlight : \E ok \in BOOLEAN : LoadRecentDone(op, ok)
  \/ \E op \in InFlight : \E ok \in BOOLEAN : CheckInDone(op, ok)
  \/ \E op \in InFlight : \E ok \in BOOLEAN : CheckOutDone(op, ok)
  \/ \E op \in InFlight : \E ok \in BOOLEAN : FetchDone(op, ok)

(* =================== local revision: src/unnamed/part_002 =================== *)

(* JSON.stringify of a record: a Date becomes its ISO string *)
Stringify(rec) ==
  [id |-> rec.id, user_id |-> rec.user_id,
   check_in_time |-> ToISOString(rec.check_in_time),
   check_out_time |-> IF rec.check_out_time # NoTime
                        THEN ToISOString(rec.check_out_time) ELSE NoStamp,
   date |-> rec.date]

StringifyAll(s) == [i \in 1..Len(s) |-> Stringify(s[i])]

(* id: Date.now().toString(); 0 is kept for the absent record *)
LocalId(t) == t + 1

(* parsedRecords.find(record => record.date === today) || null *)
FindByDate(s, today) ==
  LET hits == {i \in 1..Len(s) : s[i].date = today}
  IN IF hits = {} THEN NoRecord
     ELSE s[CHOOSE i \in hits : \A j \in hits : i <= j]

(* one step of a stable sort: r goes behind the entries not older than it *)
InsertByCheckIn(sorted, r) ==
  LET n == Cardinality({i \in 1..Len(sorted) : sorted[i].check_in_time >= r.check_in_time})
  IN SubSeq(sorted, 1, n) \o <<r>> \o SubSeq(sorted, n + 1, Len(sorted))

(* parsedRecords.sort((a, b) => b.checkInTime - a.checkInTime) *)
RECURSIVE SortByCheckInDesc(_)
SortByCheckInDesc(s) ==
  IF s = <<>> THEN <<>>
  ELSE InsertByCheckIn(SortByCheckInDesc(SubSeq(s, 1, Len(s) - 1)), s[Len(s)])

(* loadAttendanceRecords: nothing is set when the item is absent, nor     *)
(* when JSON.parse throws (the catch only logs)                            *)
LocalLoad(u) ==
  IF storage[u].present /\ storage[u].readable
    THEN LET parsedRecords == FormatAll(storage[u].items)
         IN /\ todayRecord' = FindByDate(parsedRecords, LocaleDateString(now))
            /\ recentRecords' = SortByCheckInDesc(parsedRecords)
    ELSE UNCHANGED <<todayRecord, recentRecords>>

(* saveAttendanceRecords: setItem stores the list, or throws *)
Save(records, ok) ==
  IF ok THEN storage' = [storage EXCEPT ![user] = Item(StringifyAll(records))]
        ELSE UNCHANGED storage

(* checkIn; ok: setItem does not throw *)
LocalCheckIn(ok) ==
  /\ backend = "local"
  /\ IF user = NoUser
       THEN /\ outcome' = "checkIn: returned"
            /\ UNCHANGED <<storage, todayRecord, recentRecords>>
       ELSE IF todayRecord # NoRecord
         THEN /\ outcome' = "Already checked in"
              /\ UNCHANGED <<storage, todayRecord, recentRecords>>
         ELSE LET newRecord == [id |-> LocalId(now), user_id |-> user,
                                check_in_time |-> now, check_out_time |-> NoTime,
                                date |-> LocaleDateString(now)]
                  updatedRecords == <<newRecord>> \o recentRecords
              IN /\ Len(recentRecords) < MaxRecords
                 /\ todayRecord' = newRecord
                 /\ recentRecords' = updatedRecords
                 /\ Save(updatedRecords, ok)
                 /\ outcome' = IF ok THEN "Checked in successfully" ELSE "Uncaught error"
  /\ UNCHANGED <<backend, user, storedUser, now, db, isLoading, inflight>>
  /\ returned' = <<>>

(* checkOut; ok: setItem does not throw *)
LocalCheckOut(ok) ==
  /\ backend = "local"
  /\ IF user = NoUser \/ todayRecord = NoRecord
       THEN /\ outcome' = "checkOut: returned"
            /\ UNCHANGED <<storage, todayRecord, recentRecords>>
       ELSE IF todayRecord.check_out_time # NoTime
         THEN /\ outcome' = "Already checked out"
              /\ UNCHANGED <<storage, todayRecord, recentRecords>>
         ELSE LET updatedRecord == [todayRecord EXCEPT !.check_out_time = now]
                  updatedRecords == [k \in 1..Len(recentRecords) |->
                     IF recentRecords[k].id = updatedRecord.id
                       THEN updatedRecord ELSE recentRecords[k]]
              IN /\ todayRecord' = updatedRecord
                 /\ recentRecords' = updatedRecords
                 /\ Save(updatedRecords, ok)
                 /\ outcome' = IF ok THEN "Checked out successfully" ELSE "Uncaught error"
  /\ UNCHANGED <<backend, user, storedUser, now, db, isLoading, inflight>>
  /\ returned' = <<>>

(* ============ session store: src/src/context/AuthContext.tsx ============ *)
(* the tracker's effect on [user], run after setUser *)
UserEffect(u) ==
  IF u = NoUser
    THEN /\ todayRecord' = NoRecord
         /\ recentRecords' = <<>>
         /\ UNCHANGED <<isLoading, inflight>>
    ELSE IF backend = "remote"
      THEN /\ LoadIssue(u)
           /\ UNCHANGED <<todayRecord, recentRecords>>
      ELSE /\ LocalLoad(u)
           /\ UNCHANGED <<isLoading, inflight>>

(* login: after its delay, setUser(mockUser) with id '1' *)
Login ==
  /\ NumInFlight < MaxInFlight
  /\ user' = LoginId
  /\ storedUser' = LoginId
  /\ outcome' = "Login successful"
  /\ UserEffect(LoginId)
  /\ UNCHANGED <<backend, now, db, storage>>
  /\ returned' = <<>>

(* register: after its delay, setUser(mockUser) with a new id *)
Register(id) ==
  /\ NumInFlight < MaxInFlight
  /\ user' = id
  /\ storedUser' = id
  /\ outcome' = "Registration successful"
  /\ UserEffect(id)
  /\ UNCHANGED <<backend, now, db, storage>>
  /\ returned' = <<>>

(* logout: setUser(null); the effect runs only when user changed *)
Logout ==
  /\ user' = NoUser
  /\ storedUser' = NoUser
  /\ outcome' = "Logged out"
  /\ IF user # NoUser
       THEN UserEffect(NoUser)
       ELSE UNCHANGED <<todayRecord, recentRecords, isLoading, inflight>>
  /\ UNCHANGED <<backend, now, db, storage>>
  /\ returned' = <<>>

Session ==
  \/ Login
  \/ \E id \in RegisterIds : Register(id)
  \/ Logout

(* ------------- the tracker as its context exposes it ------------------ *)
(* the range the Reports page starts with: the last 30 days *)
DefaultFrom == DateKey(now - RecentDays * TicksPerDay)
DefaultTo == DateKey(now)

Next ==
  \/ Tick
  \/ Session
  \/ backend = "remote" /\ CheckInCall
  \/ backend = "remote" /\ CheckOutCall
  \/ backend = "remote" /\ FetchCall(DefaultFrom, DefaultTo)
  \/ backend = "remote" /\ FetchCall(Undefined, Undefined)
  \/ Respond
  \/ \E ok \in BOOLEAN : LocalCheckIn(ok)
  \/ \E ok \in BOOLEAN : LocalCheckOut(ok)

Spec == Init /\ [][Next]_vars

(* --------- the remote tracker behind the buttons of the pages --------- *)
(* Check In: disabled={!!todayRecord || isLoading} *)
ClickCheckIn == user # NoUser /\ ~(todayRecord # NoRecord \/ isLoading) /\ CheckInCall

(* Check Out: disabled={!isCheckedIn || isLoading} *)
ClickCheckOut == user # NoUser /\ ~(~IsCheckedIn \/ isLoading) /\ CheckOutCall

(* Reports: generateReport runs when both ends of the range are set *)
GenerateReport(from, to) ==
  user # NoUser /\ from # Undefined /\ to # Undefined /\ FetchCall(from, to)

InitUI == backend = "remote" /\ InitState

NextUI ==
  \/ Tick
  \/ Session
  \/ ClickCheckIn
  \/ ClickCheckOut
  \/ GenerateReport(DefaultFrom, DefaultTo)
  \/ Respond

SpecUI == InitUI /\ [][NextUI]_vars

(* -------- the remote tracker of a user with a history of records ------- *)
(* the rows of MaxHistory earlier days of the user who logs in, one a day,  *)
(* checked out; day -1 is left out because -1 stands for the absent time    *)
History ==
  {[id |-> k, user_id |-> LoginId,
    check_in_time |-> ToISOString((0 - (k + 1)) * TicksPerDay),
    check_out_time |-> ToISOString((0 - (k + 1)) * TicksPerDay),
    date |-> DateKey((0 - (k + 1)) * TicksPerDay)] : k \in 1..MaxHistory}

InitHistory ==
  /\ backend = "remote"
  /\ user = NoUser
  /\ storedUser = NoUser
  /\ now = 0
  /\ db = History
  /\ storage = [u \in UserIds |-> NoItem]
  /\ todayRecord = NoRecord
  /\ recentRecords = <<>>
  /\ isLoading = FALSE
  /\ inflight = EmptyBag
  /\ outcome = ""
  /\ returned = <<>>

(* one user: nobody registers *)
NextHistory ==
  \/ Tick
  \/ Login
  \/ Logout
  \/ ClickCheckIn
  \/ ClickCheckOut
  \/ GenerateReport(DefaultFrom, DefaultTo)
  \/ Respond

SpecHistory == InitHistory /\ [][NextHistory]_vars

(* ------------- the Reports page over a table with records ------------- *)
ReportDays == 0..MaxReportDay

(* the rows check-ins of the users u on the days d left, for <<u, d>> in S *)
TableOf(S) ==
  {[id |-> p[2] * MaxUsers + p[1], user_id |-> p[1],
    check_in_time |-> ToISOString(p[2] * TicksPerDay),
    check_out_time |-> NoStamp,
    date |-> DateKey(p[2] * TicksPerDay)] : p \in S}

InitReports ==
  /\ backend = "remote"
  /\ user = NoUser
  /\ storedUser = NoUser
  /\ now = MaxReportDay * TicksPerDay
  /\ \E S \in SUBSET (UserIds \X ReportDays) : db = TableOf(S)
  /\ storage = [u \in UserIds |-> NoItem]
  /\ todayRecord = NoRecord
  /\ recentRecords = <<>>
  /\ isLoading = FALSE
  /\ inflight = EmptyBag
  /\ outcome = ""
  /\ returned = <<>>

(* the date range picker sets any two days *)
NextReports ==
  \/ Session
  \/ \E from, to \in ReportDays : GenerateReport(from, to)
  \/ \E op \in InFlight : \E ok \in BOOLEAN : LoadTodayDone(op, ok)
  \/ \E op \in InFlight : \E ok \in BOOLEAN : LoadRecentDone(op, ok)
  \/ \E op \in InFlight : \E ok \in BOOLEAN : FetchDone(op, ok)

SpecReports == InitReports /\ [][NextReports]_vars

(* -------------- the page is loaded with data in localStorage ---------- *)
(* the providers mount: all state is new, the requests of the page before  *)
(* are gone; the effect of AuthProvider reads the 'user' item, and the     *)
(* tracker's effect runs for the user it found                             *)
Mount ==
  /\ IF storedUser = NoUser
       THEN /\ user' = NoUser
            /\ outcome' = ""
            /\ UNCHANGED storedUser
       ELSE IF storedUser = CorruptUser
         THEN /\ user' = NoUser
              /\ storedUser' = NoUser
              /\ outcome' = "Failed to parse user from localStorage"
         ELSE /\ user' = storedUser
              /\ outcome' = ""
              /\ UNCHANGED storedUser
  /\ IF storedUser \in UserIds
       THEN IF backend = "remote"
         THEN /\ todayRecord' = NoRecord
              /\ recentRecords' = <<>>
              /\ isLoading' = TRUE
              /\ inflight' = SetToBag({Op("loadToday", storedUser, 0, 0, <<>>, DateKey(now), 0)})
         ELSE /\ IF storage[storedUser].present /\ storage[storedUser].readable
                   THEN LocalLoad(storedUser)
                   ELSE todayRecord' = NoRecord /\ recentRecords' = <<>>
              /\ isLoading' = FALSE
              /\ inflight' = EmptyBag
       ELSE /\ todayRecord' = NoRecord
            /\ recentRecords' = <<>>
            /\ isLoading' = FALSE
            /\ inflight' = EmptyBag
  /\ returned' = <<>>
  /\ UNCHANGED <<backend, now, db, storage>>

(* the local tracker on a browser whose items may be unreadable *)
InitStored ==
  /\ backend = "local"
  /\ user = NoUser
  /\ storedUser \in {NoUser, CorruptUser} \cup UserIds
  /\ now = 0
  /\ db = {}
  /\ storage \in [UserIds -> {NoItem, CorruptItem}]
  /\ todayRecord = NoRecord
  /\ recentRecords = <<>>
  /\ isLoading = FALSE
  /\ inflight = EmptyBag
  /\ outcome = ""
  /\ returned = <<>>

NextStored ==
  \/ Mount
  \/ Tick
  \/ Session
  \/ \E ok \in BOOLEAN : LocalCheckIn(ok)
  \/ \E ok \in BOOLEAN : LocalCheckOut(ok)

SpecStored == InitStored /\ [][NextStored]_vars

(* ============ durations: src/unnamed/part_000 (Reports, Dashboard) ============ *)
(* the times of this part are milliseconds, as Date.getTime() gives them *)

(* Math.trunc(a / b) for b > 0 *)
Trunc(a, b) == IF a >= 0 THEN a \div b ELSE 0 - ((0 - a) \div b)

(* Math.floor(a / b) for b > 0 *)
Floor(a, b) == a \div b

(* a % b of JavaScript: the remainder has the sign of a *)
Rem(a, b) == a - b * Trunc(a, b)

(* date-fns: the difference in full hours, in full minutes *)
differenceInHours(later, earlier) == Trunc(later - earlier, MsPerHour)
differenceInMinutes(later, earlier) == Trunc(later - earlier, MsPerMinute)

(* the duration generateReport computes for a record *)
ReportDuration(record) ==
  IF record.check_out_time = NoTime THEN "In progress"
  ELSE LET hours == differenceInHours(record.check_out_time, record.check_in_time)
           minutes == Rem(differenceInMinutes(record.check_out_time,
                                              record.check_in_time), MinutesPerHour)
       IN ToString(hours) \o "h " \o ToString(minutes) \o "m"

(* a calculateDuration that does not take the minutes within the hour *)
calculateDurationAllMinutes(checkIn, checkOut) ==
  IF checkOut = NoTime THEN "In progress"
  ELSE LET diff == checkOut - checkIn
           hours == Floor(diff, MsPerHour)
           minutes == Floor(diff, MsPerMinute)
       IN ToString(hours) \o "h " \o ToString(minutes) \o "m"

(* calculateDuration of the Dashboard *)
calculateDuration(checkIn, checkOut) ==
  IF checkOut = NoTime THEN "In progress"
  ELSE LET diff == checkOut - checkIn
           hours == Floor(diff, MsPerHour)
           minutes == Floor(Rem(diff, MsPerHour), MsPerMinute)
       IN ToString(hours) \o "h " \o ToString(minutes) \o "m"

(* times up to MaxHours hours: on the minute and just before the next one *)
DurationTimes ==
  {h * MsPerHour + m * MsPerMinute + e :
     h \in 0..MaxHours, m \in {0, 15, MinutesPerHour - 1}, e \in {0, MsPerMinute - 1}}

(* a record of any two times, or of one time and no check-out *)
InitDuration ==
  /\ backend = "remote"
  /\ user = LoginId
  /\ storedUser = LoginId
  /\ now = 0
  /\ db = {}
  /\ storage = [u \in UserIds |-> NoItem]
  /\ \E a \in DurationTimes : \E b \in DurationTimes \cup {NoTime} :
       todayRecord = [id |-> 1, user_id |-> LoginId, check_in_time |-> a,
                      check_out_time |-> b, date |-> 0]
  /\ recentRecords = <<todayRecord>>
  /\ isLoading = FALSE
  /\ inflight = EmptyBag
  /\ outcome = ""
  /\ returned = <<>>

(* the Reports page fills the duration column of a row *)
ReportRow ==
  /\ outcome' = ReportDuration(todayRecord)
  /\ UNCHANGED <<backend, user, storedUser, now, db, storage, todayRecord,
                 recentRecords, isLoading, inflight, returned>>

(* the Dashboard renders the duration of a row *)
DashboardRow ==
  /\ outcome' = calculateDuration(todayRecord.check_in_time, todayRecord.check_out_time)
  /\ UNCHANGED <<backend, user, storedUser, now, db, storage, todayRecord,
                 recentRecords, isLoading, inflight, returned>>

NextDuration ==
  \/ ReportRow
  \/ DashboardRow

SpecDuration == InitDuration /\ [][NextDuration]_vars

(* ============================== claims ================================ *)
(* the ids of the rows of the table *)
TableIds == {r.id : r \in db}

(* C1: the persistence store holds at most one attendance record for each *)
(* (userId, date) pair, whatever sequence of login, load, checkIn and      *)
(* checkOut ran, overlapping or not.                                       *)
OneRecordPerUserAndDate ==
  \A r1, r2 \in db : (r1.user_id = r2.user_id /\ r1.date = r2.date) => r1 = r2

(* C2: once a checkOut has recorded a checkOutTime, a later checkOut leaves *)
(* the persisted checkOutTime and todayRecord.checkOutTime at that value.   *)
CheckOutTimeSetOnce ==
  [][\A op \in Pending("checkOut") : \A ok \in BOOLEAN : CheckOutDone(op, ok) =>
       /\ \A r \in db : r.check_out_time # NoStamp =>
            \E r2 \in db' : r2.id = r.id /\ r2.check_out_time = r.check_out_time
       /\ (todayRecord.check_out_time # NoTime /\ todayRecord'.id = todayRecord.id) =>
            todayRecord'.check_out_time = todayRecord.check_out_time]_vars

(* C3: checkIn and checkOut are serialized: while one of them has a request *)
(* in flight no second insert or update is issued.                          *)
MutationsSerialized == NumPending({"checkIn", "checkOut"}) <= 1

(* C4: while a user is the current user, todayRecord and recentRecords hold *)
(* no record loaded or created for another user.                            *)
NoRecordOfAnotherUser ==
  user # NoUser =>
    /\ todayRecord # NoRecord => todayRecord.user_id = user
    /\ \A i \in 1..Len(recentRecords) : recentRecords[i].user_id = user

(* C5: while no user is present todayRecord is absent and recentRecords is *)
(* empty, also when a request issued before the logout completes after it.  *)
EmptyWhileNoUser ==
  user = NoUser => (todayRecord = NoRecord /\ recentRecords = <<>>)

(* C6: checkIn called while todayRecord exists reports "Already checked in", *)
(* issues no insert and leaves todayRecord, recentRecords and every          *)
(* persisted record as they were.                                            *)
CheckInWithRecordIsNoOp ==
  [][(user # NoUser /\ todayRecord # NoRecord
        /\ (CheckInCall \/ \E ok \in BOOLEAN : LocalCheckIn(ok)))
       => /\ outcome' = "Already checked in"
          /\ UNCHANGED <<todayRecord, recentRecords, db, storage, inflight>>]_vars

(* C6 happens: checkIn was refused on a record that is already checked out *)
CheckInRefusedAfterCheckOut ==
  outcome = "Already checked in" /\ todayRecord.check_out_time # NoTime

(* C7: checkOut called with no user or with todayRecord absent returns      *)
(* without an update and leaves todayRecord, recentRecords and the store as *)
(* they were; the update of a checkOut adds no row to the table.            *)
CheckOutWithoutRecordIsNoOp ==
  [][/\ ((user = NoUser \/ todayRecord = NoRecord)
           /\ (CheckOutCall \/ \E ok \in BOOLEAN : LocalCheckOut(ok)))
         => /\ outcome' = "checkOut: returned"
            /\ UNCHANGED <<todayRecord, recentRecords, db, storage, inflight, isLoading>>
     /\ (\E op \in Pending("checkOut") : \E ok \in BOOLEAN : CheckOutDone(op, ok))
         => TableIds' = TableIds]_vars

(* C7 happens: a user without a record for today called checkOut *)
CheckOutReturnedWithoutRecord ==
  outcome = "checkOut: returned" /\ user # NoUser /\ todayRecord = NoRecord

(* C8: a checkIn whose persistence write fails reports the failure and      *)
(* leaves todayRecord, recentRecords and the store as they were.            *)
CheckInFailureChangesNothing ==
  [][/\ \A op \in Pending("checkIn") : CheckInDone(op, FALSE) =>
          /\ outcome' = "Check-in failed"
          /\ UNCHANGED <<todayRecord, recentRecords, db>>
     /\ (user # NoUser /\ todayRecord = NoRecord /\ LocalCheckIn(FALSE)) =>
          /\ outcome' = "Check-in failed"
          /\ UNCHANGED <<todayRecord, recentRecords, storage>>]_vars

(* C9: a checkOut whose persistence update fails reports the failure and    *)
(* leaves todayRecord, recentRecords and the store as they were, so that    *)
(* isCheckedIn stays true.                                                   *)
CheckOutFailureChangesNothing ==
  [][/\ \A op \in Pending("checkOut") : CheckOutDone(op, FALSE) =>
          /\ outcome' = "Check-out failed"
          /\ UNCHANGED <<todayRecord, recentRecords, db>>
     /\ (user # NoUser /\ IsCheckedIn /\ LocalCheckOut(FALSE)) =>
          /\ outcome' = "Check-out failed"
          /\ IsCheckedIn'
          /\ UNCHANGED <<todayRecord, recentRecords, storage>>]_vars

(* C10: a checkIn that succeeds persists exactly one new record, with the   *)
(* user, time and date key of the call and no checkOutTime; todayRecord     *)
(* becomes that record and recentRecords becomes that record followed by    *)
(* the entries recentRecords held when the insert completed.                *)
CheckInPrependsToCurrentList ==
  [][\A op \in Pending("checkIn") : CheckInDone(op, TRUE) =>
       \E r \in db' \ db :
         /\ db' = db \cup {r}
         /\ r.user_id = op.user
         /\ r.check_in_time = ToISOString(op.now)
         /\ r.check_out_time = NoStamp
         /\ r.date = DateKey(op.now)
         /\ todayRecord' = FormatRecord(r)
         /\ recentRecords' = <<FormatRecord(r)>> \o recentRecords]_vars

(* C11: a checkOut that succeeds changes only the checkOutTime of today's   *)
(* record: todayRecord and the entry of recentRecords with its id carry the *)
(* new checkOutTime with id, userId, date and checkInTime as they were, and *)
(* every other entry, the order and the length of recentRecords stay.       *)
CheckOutChangesOnlyCheckOutTime ==
  [][/\ \A op \in Pending("checkOut") :
          (CheckOutDone(op, TRUE) /\ outcome' = "Checked out successfully") =>
            /\ todayRecord' = [todayRecord EXCEPT !.check_out_time = op.now]
            /\ Len(recentRecords') = Len(recentRecords)
            /\ \A k \in 1..Len(recentRecords) :
                 recentRecords'[k] = IF recentRecords[k].id = todayRecord.id
                                       THEN todayRecord' ELSE recentRecords[k]
     /\ (user # NoUser /\ IsCheckedIn /\ LocalCheckOut(TRUE)) =>
          /\ todayRecord' = [todayRecord EXCEPT !.check_out_time = now]
          /\ Len(recentRecords') = Len(recentRecords)
          /\ \A k \in 1..Len(recentRecords) :
               recentRecords'[k] = IF recentRecords[k].id = todayRecord.id
                                     THEN todayRecord' ELSE recentRecords[k]]_vars

(* C12: whenever todayRecord is present it is the record of the current   *)
(* user for the current calendar day, also after the day advanced and      *)
(* after the current user changed.                                          *)
TodayRecordIsOfUserAndToday ==
  todayRecord # NoRecord =>
    (todayRecord.user_id = user /\ todayRecord.date = DateKey(now))

(* C13: ownership is exclusive: the update of a checkOut and the insert of *)
(* a checkIn called by a user touch rows of that user only, the list stored *)
(* under a user's key holds that user's records only, and the records held  *)
(* for the current user are that user's, also right after a switch.         *)
OwnershipExclusive ==
  [][/\ \A op \in Pending("checkIn") \cup Pending("checkOut") : \A ok \in BOOLEAN :
          (CheckInDone(op, ok) \/ CheckOutDone(op, ok)) =>
            \A r \in db' \ db : r.user_id = op.user
     /\ \A u \in UserIds : \A i \in 1..Len(storage'[u].items) :
          storage'[u].items[i].user_id = u
     /\ user' # NoUser =>
          /\ todayRecord' # NoRecord => todayRecord'.user_id = user'
          /\ \A i \in 1..Len(recentRecords') : recentRecords'[i].user_id = user']_vars

(* C14: recentRecords never holds more entries than the window the load   *)
(* applies, after any sequence of load, checkIn and checkOut.               *)
RecentRecordsWithinWindow == Len(recentRecords) <= RecentLimit

(* C15: no step removes a persisted record or changes it other than by     *)
(* setting its checkOutTime once: every row of the table and every record   *)
(* of a stored list is still there after the step, with its id, user, date  *)
(* and checkInTime, and with its checkOutTime if it had one.                *)
PersistedRecordsOnlyGrow ==
  [][LET Kept(r, S) ==
           \E r2 \in S : /\ r2.id = r.id
                         /\ r2.user_id = r.user_id
                         /\ r2.check_in_time = r.check_in_time
                         /\ r2.date = r.date
                         /\ r.check_out_time # NoStamp =>
                              r2.check_out_time = r.check_out_time
         Stored(st, u) == {st[u].items[i] : i \in 1..Len(st[u].items)}
     IN /\ \A r \in db : Kept(r, db')
        /\ \A u \in UserIds : \A r \in Stored(storage, u) :
             Kept(r, Stored(storage', u))]_vars

(* C16: every record that has a checkOutTime, persisted or held in         *)
(* todayRecord or recentRecords, has checkOutTime >= checkInTime (the clock *)
(* of the model never goes backwards).                                      *)
CheckOutNotBeforeCheckIn ==
  /\ \A r \in db : r.check_out_time # NoStamp =>
       ParseDate(r.check_out_time) >= ParseDate(r.check_in_time)
  /\ \A u \in UserIds : \A i \in 1..Len(storage[u].items) :
       storage[u].items[i].check_out_time # NoStamp =>
         ParseDate(storage[u].items[i].check_out_time)
           >= ParseDate(storage[u].items[i].check_in_time)
  /\ todayRecord.check_out_time # NoTime =>
       todayRecord.check_out_time >= todayRecord.check_in_time
  /\ \A i \in 1..Len(recentRecords) :
       recentRecords[i].check_out_time # NoTime =>
         recentRecords[i].check_out_time >= recentRecords[i].check_in_time

(* C16 happens: a record was checked out at a later time than it was       *)
(* checked in                                                               *)
CheckedOutLaterThanCheckedIn ==
  /\ outcome = "Checked out successfully"
  /\ todayRecord.check_out_time > todayRecord.check_in_time
  /\ \E i \in 1..Len(recentRecords) : recentRecords[i] = todayRecord

(* C17: isCheckedIn is derived from the current state: in every reachable  *)
(* state it is true exactly when todayRecord is present and has no         *)
(* checkOutTime; the tracker keeps no flag of its own for it.              *)
IsCheckedInIsDerived ==
  IsCheckedIn <=> (todayRecord.id # NoRecord.id /\ todayRecord.check_out_time \notin Nat)

(* C17 happens: todayRecord is present and checked out, isCheckedIn is false *)
PresentButCheckedOut ==
  /\ user # NoUser
  /\ todayRecord # NoRecord
  /\ todayRecord.check_out_time \in Nat
  /\ ~IsCheckedIn

(* C18: a fetch called with a user and both bounds returns exactly the    *)
(* persisted records of that user whose date key lies in [from, to], both  *)
(* ends included, each once, ordered by date descending, and leaves        *)
(* todayRecord and recentRecords as they are.                              *)
FetchReturnsRangeOfUser ==
  [][\A op \in Pending("fetch") : FetchDone(op, TRUE) =>
       LET n == Len(returned')
       IN /\ \A r \in db :
               (r.user_id = op.user /\ op.from <= r.date /\ r.date <= op.to)
                 <=> (\E i \in 1..n : returned'[i] = FormatRecord(r))
          /\ \A i \in 1..n : \E r \in db : returned'[i] = FormatRecord(r)
          /\ \A i, j \in 1..n : i < j =>
               (returned'[i] # returned'[j] /\ returned'[i].date >= returned'[j].date)
          /\ UNCHANGED <<todayRecord, recentRecords>>]_vars

(* C18 happens: a fetch returned two or more records of its user while the *)
(* table also holds a record of that user outside the range and a record   *)
(* of another user inside it                                               *)
FetchReturnedPartOfTable ==
  /\ Len(returned) >= 2
  /\ \E r \in db : /\ r.user_id = returned[1].user_id
                    /\ r.date > returned[1].date
  /\ \E r \in db : /\ r.user_id # returned[1].user_id
                    /\ r.date = returned[1].date

(* C19: the duration of a record is "In progress" when it has no          *)
(* checkOutTime; otherwise it is "<h>h <m>m" with h the whole hours of     *)
(* checkOutTime - checkInTime and m the remaining whole minutes,           *)
(* 0 <= m < 60, and the report and the dashboard give the same text, for   *)
(* every pair of times.                                                    *)
DurationForEveryPair ==
  LET in == todayRecord.check_in_time
      out == todayRecord.check_out_time
      report == ReportDuration(todayRecord)
      dashboard == calculateDuration(in, out)
  IN /\ report = dashboard
     /\ out = NoTime => report = "In progress"
     /\ out # NoTime =>
          \E h \in (0 - MaxHours - 1)..(MaxHours + 1) : \E m \in 0..(MinutesPerHour - 1) :
            /\ h * MsPerHour + m * MsPerMinute <= out - in
            /\ out - in < h * MsPerHour + (m + 1) * MsPerMinute
            /\ report = ToString(h) \o "h " \o ToString(m) \o "m"

(* C19, amended: the same for every pair of times with checkOutTime not    *)
(* before checkInTime.                                                     *)
DurationForOrderedPair ==
  (todayRecord.check_out_time = NoTime
     \/ todayRecord.check_out_time >= todayRecord.check_in_time)
    => DurationForEveryPair

(* C19 happens: a check-out 2 hours 15 minutes after the check-in was      *)
(* shown as "2h 15m"                                                       *)
ShownTwoHoursFifteen ==
  /\ todayRecord.check_out_time - todayRecord.check_in_time
       = 2 * MsPerHour + 15 * MsPerMinute
  /\ outcome = "2h 15m"

(* C20: stored data that cannot be parsed is discarded and treated as     *)
(* empty: after the page loaded with an unreadable 'user' item there is no *)
(* user and the item is gone, and after a load that found the attendance   *)
(* list of its user unreadable todayRecord is absent and recentRecords is  *)
(* empty.                                                                  *)
MalformedStoredDataIsEmpty ==
  [][/\ (storedUser = CorruptUser /\ Mount) =>
          /\ user' = NoUser
          /\ storedUser' = NoUser
          /\ todayRecord' = NoRecord
          /\ recentRecords' = <<>>
     /\ \A u \in UserIds :
          (/\ backend = "local"
           /\ storage[u] = CorruptItem
           /\ user' = u
           /\ (Mount \/ Login \/ Register(u))) =>
            /\ todayRecord' = NoRecord
            /\ recentRecords' = <<>>]_vars

(* C21: todayRecord and recentRecords agree: whenever todayRecord is       *)
(* present, recentRecords holds exactly one entry with its id and that     *)
(* entry has the same checkOutTime, also after a load whose query for      *)
(* today's record succeeded and whose query for recent records failed.     *)
TodayRecordIsInRecentRecords ==
  todayRecord # NoRecord =>
    /\ Cardinality({i \in 1..Len(recentRecords) :
                      recentRecords[i].id = todayRecord.id}) = 1
    /\ \A i \in 1..Len(recentRecords) :
         recentRecords[i].id = todayRecord.id =>
           recentRecords[i].check_out_time = todayRecord.check_out_time

(* C22: isLoading is true in every state in which a load, checkIn,        *)
(* checkOut or fetch has a request outstanding, also when two of them      *)
(* overlap and one finishes first, and false when none is outstanding.     *)
BusyWhileOutstanding == isLoading <=> (NumInFlight > 0)

=============================================================================
